---- MODULE Spec2Model ----
(***************************************************************************)
(* Forward kinematics of a planar linkage (LinkageGraph.js).               *)
(*                                                                         *)
(* One behaviour is one call forwardLinkage(linkage, angles).  The state   *)
(* is the input linkage, the caller's angle map, the config built by       *)
(* forwardLinkage and the local variables of forwardConfig.  Each          *)
(* iteration of forwardConfig's for loop (one forwardSegment call) is one  *)
(* step.                                                                   *)
(*                                                                         *)
(* Numbers.  A JS number is modelled as [nan |-> BOOLEAN, v |-> Int]: an   *)
(* integer or NaN.  Angles are counted in quarter turns (1 is PI/2), so    *)
(* that cos and sin of an angle are exact.  atan2/cos/sin/acos are not     *)
(* available, so the two forward functions are computed by the identities  *)
(*   cos(alpha + theta) = (dx cos(theta) - dy sin(theta)) / len2           *)
(*   sin(alpha + theta) = (dy cos(theta) + dx sin(theta)) / len2           *)
(* with alpha = atan2(dy, dx), len2 = sqrt(dx^2 + dy^2), and results are   *)
(* rounded to the nearest integer (the model's floating-point tolerance).  *)
(***************************************************************************)
EXTENDS Integers, Sequences, FiniteSets, TLC

VARIABLES linkage, angles, config, pc, progress, computedSegments, idx,
          error, sweeps, resolved, call

vars == <<linkage, angles, config, pc, progress, computedSegments, idx,
          error, sweeps, resolved, call>>

-----------------------------------------------------------------------------
(* Bounds *)

MaxSegs == 2

\* cap of the sweep counter; forwardConfig never reaches it
MaxSweeps == MaxSegs + 3

-----------------------------------------------------------------------------
(* Numbers and points *)

Num(n) == [nan |-> FALSE, v |-> n]

NaN == [nan |-> TRUE, v |-> 0]

Pt(a, b) == [x |-> Num(a), y |-> Num(b)]

NaNPoint == [x |-> NaN, y |-> NaN]

IsNaNPoint(p) == p.x.nan \/ p.y.nan

Abs(n) == IF n < 0 THEN -n ELSE n

Sign(n) == IF n < 0 THEN -1 ELSE IF n > 0 THEN 1 ELSE 0

\* a / b rounded to the nearest integer, b > 0
RoundDiv(a, b) == (2 * a + b) \div (2 * b)

\* Math.sqrt(num / den) rounded to the nearest integer, num >= 0, den > 0,
\* searched up to hi >= sqrt(num / den)
RoundSqrt(num, den, hi) ==
    CHOOSE r \in 0..(hi + 1) :
        /\ (r = 0 \/ (2 * r - 1) * (2 * r - 1) * den <= 4 * num)
        /\ 4 * num < (2 * r + 1) * (2 * r + 1) * den

\* Math.cos and Math.sin of q quarter turns
Cos4(q) == LET m == q % 4 IN IF m = 0 THEN 1 ELSE IF m = 2 THEN -1 ELSE 0

Sin4(q) == LET m == q % 4 IN IF m = 1 THEN 1 ELSE IF m = 3 THEN -1 ELSE 0

\* len * c / sqrt(l2) rounded, l2 > 0
Scaled(len, c, l2) ==
    Sign(len * c) * RoundSqrt(len * len * c * c, l2, Abs(len * c))

-----------------------------------------------------------------------------
(* Maps and getX *)

\* Map.get(key) is undefined
Absent(m, key) == key \notin DOMAIN m

\* Map.set(key, value)
MapSet(m, key, value) ==
    [k \in DOMAIN m \cup {key} |-> IF k = key THEN value ELSE m[k]]

EmptyMap == [k \in {} |-> 0]

NoError == [msg |-> "none", key |-> "none"]

\* new Error('no value for key ' + String(key))
NoValue(key) == [msg |-> "no value for key", key |-> key]

FailedToCompute == [msg |-> "failed to compute all segments", key |-> "none"]

\* slip: the value is tested for truthiness, and 0 is falsy
getX_Falsy(m, key) ==
    IF Absent(m, key) \/ m[key] = 0
    THEN [threw |-> TRUE, error |-> NoValue(key)]
    ELSE [threw |-> FALSE, v |-> m[key]]

\* getX: throws when the key has no value, else returns the value
getX(m, key) ==
    IF Absent(m, key) THEN [threw |-> TRUE, error |-> NoValue(key)]
    ELSE [threw |-> FALSE, v |-> m[key]]

-----------------------------------------------------------------------------
(* Motor segment *)

Threw(e) == [kind |-> "throw", error |-> e]

Null == [kind |-> "null"]

Value(in) == [kind |-> "value", input |-> in]

MotorGetInput(cfg, refs) ==
    LET p0 == getX(cfg.points, refs.p0)
        p1 == getX(cfg.points, refs.p1)
        theta == getX(cfg.angles, refs.theta)
        len == getX(cfg.lengths, refs.len)
    IN  IF p0.threw THEN Threw(p0.error)
        ELSE IF p1.threw THEN Threw(p1.error)
        ELSE IF theta.threw THEN Threw(theta.error)
        ELSE IF len.threw THEN Threw(len.error)
        ELSE Value([p0 |-> p0.v, p1 |-> p1.v, theta |-> theta.v, len |-> len.v])

\* slip: the drive angle is subtracted from alpha
MotorForward_MinusTheta(in) ==
    IF IsNaNPoint(in.p0) \/ IsNaNPoint(in.p1) THEN NaNPoint
    ELSE
      LET dx == in.p1.x.v - in.p0.x.v
          dy == in.p1.y.v - in.p0.y.v
          l2 == dx * dx + dy * dy
          ux == IF l2 = 0 THEN 1 ELSE dx
          uy == IF l2 = 0 THEN 0 ELSE dy
          n2 == IF l2 = 0 THEN 1 ELSE l2
          cx == ux * Cos4(in.theta) + uy * Sin4(in.theta)
          cy == uy * Cos4(in.theta) - ux * Sin4(in.theta)
      IN  Pt(in.p0.x.v + Scaled(in.len, cx, n2),
             in.p0.y.v + Scaled(in.len, cy, n2))

MotorForward(in) ==
    IF IsNaNPoint(in.p0) \/ IsNaNPoint(in.p1) THEN NaNPoint
    ELSE
      LET dx == in.p1.x.v - in.p0.x.v
          dy == in.p1.y.v - in.p0.y.v
          l2 == dx * dx + dy * dy
          \* atan2(0, 0) is 0: the direction is the x axis
          ux == IF l2 = 0 THEN 1 ELSE dx
          uy == IF l2 = 0 THEN 0 ELSE dy
          n2 == IF l2 = 0 THEN 1 ELSE l2
          cx == ux * Cos4(in.theta) - uy * Sin4(in.theta)
          cy == uy * Cos4(in.theta) + ux * Sin4(in.theta)
      IN  Pt(in.p0.x.v + Scaled(in.len, cx, n2),
             in.p0.y.v + Scaled(in.len, cy, n2))

MotorSetOutput(cfg, refs, output) ==
    [cfg EXCEPT !.points = MapSet(cfg.points, refs.p2, output)]

\* slip: the output is looked up in the wrong map
MotorHasSetOutput_WrongMap(cfg, refs) == ~Absent(cfg.lengths, refs.p2)

MotorHasSetOutput(cfg, refs) == ~Absent(cfg.points, refs.p2)

-----------------------------------------------------------------------------
(* Passive segment *)

\* slip: a length without value is treated like a point not yet computed
PassiveGetInput_Lenient(cfg, refs) ==
    IF Absent(cfg.points, refs.p0) \/ Absent(cfg.points, refs.p1) THEN Null
    ELSE IF Absent(cfg.lengths, refs.len0) \/ Absent(cfg.lengths, refs.len1)
    THEN Null
    ELSE Value([p0 |-> cfg.points[refs.p0], p1 |-> cfg.points[refs.p1],
                len0 |-> cfg.lengths[refs.len0], len1 |-> cfg.lengths[refs.len1]])

PassiveGetInput(cfg, refs) ==
    IF Absent(cfg.points, refs.p0) \/ Absent(cfg.points, refs.p1) THEN Null
    ELSE
      LET len0 == getX(cfg.lengths, refs.len0)
          len1 == getX(cfg.lengths, refs.len1)
      IN  IF len0.threw THEN Threw(len0.error)
          ELSE IF len1.threw THEN Threw(len1.error)
          ELSE Value([p0 |-> cfg.points[refs.p0], p1 |-> cfg.points[refs.p1],
                      len0 |-> len0.v, len1 |-> len1.v])

\* slip: the law of cosines is divided by 2 len0 len2 instead of -2 len0 len2
PassiveForward_SignSlip(in) ==
    IF IsNaNPoint(in.p0) \/ IsNaNPoint(in.p1) THEN NaNPoint
    ELSE
      LET dx == in.p1.x.v - in.p0.x.v
          dy == in.p1.y.v - in.p0.y.v
          l2 == dx * dx + dy * dy
          k == in.len1 * in.len1 - in.len0 * in.len0 - l2
          d == 4 * in.len0 * in.len0 * l2 - k * k
          s == RoundSqrt(d, 1, 2 * in.len0 * (Abs(dx) + Abs(dy)))
      IN  IF in.len0 * l2 = 0 \/ d < 0 THEN NaNPoint
          ELSE Pt(in.p0.x.v + RoundDiv(k * dx - s * dy, 2 * l2),
                  in.p0.y.v + RoundDiv(k * dy + s * dx, 2 * l2))

\* slip: the arguments of atan2 are exchanged, atan2(dx, dy)
PassiveForward_Atan2Swapped(in) ==
    IF IsNaNPoint(in.p0) \/ IsNaNPoint(in.p1) THEN NaNPoint
    ELSE
      LET dx == in.p1.x.v - in.p0.x.v
          dy == in.p1.y.v - in.p0.y.v
          l2 == dx * dx + dy * dy
          k == in.len0 * in.len0 + l2 - in.len1 * in.len1
          d == 4 * in.len0 * in.len0 * l2 - k * k
          s == RoundSqrt(d, 1, 2 * in.len0 * (Abs(dx) + Abs(dy)))
      IN  IF in.len0 * l2 = 0 \/ d < 0 THEN NaNPoint
          ELSE Pt(in.p0.x.v + RoundDiv(k * dy - s * dx, 2 * l2),
                  in.p0.y.v + RoundDiv(k * dx + s * dy, 2 * l2))

\* the acos argument is k / (2 len0 len2) with k = len0^2 + len2^2 - len1^2;
\* acos is NaN when |k| > 2 len0 len2 or when len0 len2 = 0 (division by 0);
\* sin(theta) = sqrt(d) / (2 len0 len2) with d = 4 len0^2 len2^2 - k^2
PassiveForward(in) ==
    IF IsNaNPoint(in.p0) \/ IsNaNPoint(in.p1) THEN NaNPoint
    ELSE
      LET dx == in.p1.x.v - in.p0.x.v
          dy == in.p1.y.v - in.p0.y.v
          l2 == dx * dx + dy * dy
          k == in.len0 * in.len0 + l2 - in.len1 * in.len1
          d == 4 * in.len0 * in.len0 * l2 - k * k
          s == RoundSqrt(d, 1, 2 * in.len0 * (Abs(dx) + Abs(dy)))
      IN  IF in.len0 * l2 = 0 \/ d < 0 THEN NaNPoint
          ELSE Pt(in.p0.x.v + RoundDiv(k * dx - s * dy, 2 * l2),
                  in.p0.y.v + RoundDiv(k * dy + s * dx, 2 * l2))

\* slip: the output is also recorded in the lengths map
PassiveSetOutput_AlsoLength(cfg, refs, output) ==
    [cfg EXCEPT !.points = MapSet(cfg.points, refs.p2, output),
                !.lengths = MapSet(cfg.lengths, refs.p2, output)]

PassiveSetOutput(cfg, refs, output) ==
    [cfg EXCEPT !.points = MapSet(cfg.points, refs.p2, output)]

\* slip: the truthiness of a coordinate is tested, and NaN is falsy
PassiveHasSetOutput_Finite(cfg, refs) ==
    ~Absent(cfg.points, refs.p2) /\ ~IsNaNPoint(cfg.points[refs.p2])

PassiveHasSetOutput(cfg, refs) == ~Absent(cfg.points, refs.p2)

-----------------------------------------------------------------------------
(* forwardSegment: the switch of forwardConfig dispatches on segment.t *)

HasSetOutput(cfg, seg) ==
    IF seg.t = "m" THEN MotorHasSetOutput(cfg, seg.refs)
    ELSE PassiveHasSetOutput(cfg, seg.refs)

GetInput(cfg, seg) ==
    IF seg.t = "m" THEN MotorGetInput(cfg, seg.refs)
    ELSE PassiveGetInput(cfg, seg.refs)

Forward(seg, in) ==
    IF seg.t = "m" THEN MotorForward(in) ELSE PassiveForward(in)

SetOutput(cfg, seg, output) ==
    IF seg.t = "m" THEN MotorSetOutput(cfg, seg.refs, output)
    ELSE PassiveSetOutput(cfg, seg.refs, output)

\* slip: the early return for an output already computed is missing
forwardSegment_Recompute(cfg, seg) ==
    LET input == GetInput(cfg, seg)
    IN  IF input.kind = "throw"
        THEN [threw |-> TRUE, error |-> input.error, config |-> cfg]
        ELSE IF input.kind = "null"
        THEN [threw |-> FALSE, ret |-> FALSE, config |-> cfg]
        ELSE [threw |-> FALSE, ret |-> TRUE,
              config |-> SetOutput(cfg, seg, Forward(seg, input.input))]

\* slip: an input that is not ready is reported as computed
forwardSegment_TrueOnNull(cfg, seg) ==
    IF HasSetOutput(cfg, seg)
    THEN [threw |-> FALSE, ret |-> FALSE, config |-> cfg]
    ELSE LET input == GetInput(cfg, seg)
         IN  IF input.kind = "throw"
             THEN [threw |-> TRUE, error |-> input.error, config |-> cfg]
             ELSE IF input.kind = "null"
             THEN [threw |-> FALSE, ret |-> TRUE, config |-> cfg]
             ELSE [threw |-> FALSE, ret |-> TRUE,
                   config |-> SetOutput(cfg, seg, Forward(seg, input.input))]

\* result: threw (with error), or returned ret with the config it leaves
forwardSegment(cfg, seg) ==
    IF HasSetOutput(cfg, seg)
    THEN [threw |-> FALSE, ret |-> FALSE, config |-> cfg]
    ELSE LET input == GetInput(cfg, seg)
         IN  IF input.kind = "throw"
             THEN [threw |-> TRUE, error |-> input.error, config |-> cfg]
             ELSE IF input.kind = "null"
             THEN [threw |-> FALSE, ret |-> FALSE, config |-> cfg]
             ELSE [threw |-> FALSE, ret |-> TRUE,
                   config |-> SetOutput(cfg, seg, Forward(seg, input.input))]

\* slip: the final test only rejects a count that is too large
NotAllComputed_Greater(computed, n) == computed > n

\* the final test of forwardConfig
NotAllComputed(computed, n) == computed # n

-----------------------------------------------------------------------------
(* forwardConfig as a function of its arguments: the outcome of the run *)

RECURSIVE forLoop(_, _, _, _)
\* the for loop from segment i on; progress is its value so far
forLoop(cfg, segments, i, prog) ==
    IF i > Len(segments)
    THEN [threw |-> FALSE, progress |-> prog, config |-> cfg]
    ELSE LET r == forwardSegment(cfg, segments[i])
         IN  IF r.threw THEN r
             ELSE forLoop(r.config, segments, i + 1, r.ret \/ prog)

RECURSIVE whileLoop(_, _, _, _)
\* the while loop entered with the given computedSegments; fuel bounds the
\* recursion and is never exhausted (each sweep with progress binds a point)
whileLoop(cfg, segments, computed, fuel) ==
    LET r == forLoop(cfg, segments, 1, FALSE)
    IN  IF r.threw THEN [status |-> "threw", error |-> r.error, config |-> r.config]
        ELSE IF r.progress /\ fuel > 0
        THEN whileLoop(r.config, segments, computed + 1, fuel - 1)
        ELSE IF NotAllComputed(computed, Len(segments))
        THEN [status |-> "threw", error |-> FailedToCompute, config |-> r.config]
        ELSE [status |-> "returned", error |-> NoError, config |-> r.config]

\* the config forwardLinkage builds before it calls forwardConfig
SeedConfig(lk, ang) ==
    [points |-> lk.staticPoints, lengths |-> lk.lengths, angles |-> ang]

\* outcome of forwardLinkage(lk, ang)
forwardLinkageOutcome(lk, ang) ==
    whileLoop(SeedConfig(lk, ang), lk.segments, 0, Len(lk.segments) + 1)

-----------------------------------------------------------------------------
(* Inputs: the square linkage of the tests and its variations *)

\* anchors of the square linkage, side 4
StaticPoints == [r \in {"p0", "p1"} |-> IF r = "p0" THEN Pt(0, 0) ELSE Pt(4, 0)]

\* len0..len2 are the sides of the square; len3 is too long for any triangle
Lengths ==
    [r \in {"len0", "len1", "len2", "len3"} |-> IF r = "len3" THEN 12 ELSE 4]

\* theta0 is PI/2 (one quarter turn)
AngleMaps == {[r \in {"theta0"} |-> 1]}

\* (p0, p1) of a segment: both anchors, or one computed point
MotorPointRefs == {<<"p0", "p1">>, <<"p2", "p1">>, <<"p1", "p2">>}

PassivePointRefs == {<<"p0", "p1">>, <<"p2", "p1">>, <<"p3", "p1">>}

\* p2 of a segment: a computed point, or (wrongly) an anchor
OutputRefs == {"p0", "p2", "p3"}

\* thetaX and lenX are never seeded
MotorSegs ==
    {[t |-> "m", refs |-> [p0 |-> pr[1], p1 |-> pr[2], p2 |-> o,
                           theta |-> tl[1], len |-> tl[2]]] :
        pr \in MotorPointRefs, o \in OutputRefs,
        tl \in {<<"theta0", "len0">>, <<"thetaX", "len0">>, <<"theta0", "lenX">>}}

PassiveSegs ==
    {[t |-> "p", refs |-> [p0 |-> pr[1], p1 |-> pr[2], p2 |-> o,
                           len0 |-> ll[1], len1 |-> ll[2]]] :
        pr \in PassivePointRefs, o \in OutputRefs,
        ll \in {<<"len1", "len2">>, <<"len1", "len3">>,
                <<"lenX", "len2">>, <<"len1", "lenX">>}}

SegPool == MotorSegs \cup PassiveSegs

SegLists == UNION {[1..n -> SegPool] : n \in 0..MaxSegs}

Linkages ==
    {[staticPoints |-> StaticPoints, lengths |-> Lengths, segments |-> ss] :
        ss \in SegLists}

-----------------------------------------------------------------------------
(* The run *)

NSegs == Len(linkage.segments)

Terminated == pc \in {"returned", "threw"}

\* no function has been called on its own
NoCall == [op |-> "none"]

\* before the call: no linkage has been passed in yet
NoLinkage == [staticPoints |-> EmptyMap, lengths |-> EmptyMap, segments |-> <<>>]

Init ==
    /\ linkage = NoLinkage
    /\ angles = EmptyMap
    /\ config = [points |-> EmptyMap, lengths |-> EmptyMap, angles |-> EmptyMap]
    /\ pc = "forwardLinkage"
    /\ progress = TRUE
    /\ computedSegments = 0
    /\ idx = 1
    /\ error = NoError
    /\ sweeps = 0
    /\ resolved = {}
    /\ call = NoCall

\* the call forwardLinkage(lk, ang) up to its call of forwardConfig, and
\* forwardConfig's initialisation of its locals
forwardLinkage ==
    /\ pc = "forwardLinkage"
    /\ \E lk \in Linkages, ang \in AngleMaps :
          /\ linkage' = lk
          /\ angles' = ang
          /\ config' = SeedConfig(lk, ang)
    /\ progress' = TRUE
    /\ computedSegments' = 0
    /\ pc' = "while"
    /\ UNCHANGED <<call, idx, error, sweeps, resolved>>

\* slip: progress is not reset at the start of a sweep
whileEnter_KeepsProgress ==
    /\ pc = "while"
    /\ progress
    /\ sweeps < MaxSweeps
    /\ progress' = progress
    /\ idx' = 1
    /\ sweeps' = sweeps + 1
    /\ pc' = "for"
    /\ UNCHANGED <<call, linkage, angles, config, computedSegments, error, resolved>>

\* while (progress) { progress = false; for (...)
whileEnter ==
    /\ pc = "while"
    /\ progress
    /\ sweeps < MaxSweeps
    /\ progress' = FALSE
    /\ idx' = 1
    /\ sweeps' = sweeps + 1
    /\ pc' = "for"
    /\ UNCHANGED <<call, linkage, angles, config, computedSegments, error, resolved>>

\* one iteration of the for loop: forwardSegment returns
forBody ==
    /\ pc = "for"
    /\ idx <= NSegs
    /\ LET r == forwardSegment(config, linkage.segments[idx])
       IN  /\ ~r.threw
           /\ config' = r.config
           /\ progress' = (r.ret \/ progress)
           /\ resolved' = IF r.ret THEN resolved \cup {idx} ELSE resolved
    /\ idx' = idx + 1
    /\ UNCHANGED <<call, linkage, angles, pc, computedSegments, error, sweeps>>

\* slip: the error path restores the config forwardLinkage built
forBodyThrows_Rollback ==
    /\ pc = "for"
    /\ idx <= NSegs
    /\ LET r == forwardSegment(config, linkage.segments[idx])
       IN  /\ r.threw
           /\ error' = r.error
           /\ config' = SeedConfig(linkage, angles)
    /\ pc' = "threw"
    /\ UNCHANGED <<call, linkage, angles, progress, computedSegments, idx, sweeps,
                   resolved>>

\* one iteration of the for loop: forwardSegment throws, the error leaves
\* forwardConfig and forwardLinkage
forBodyThrows ==
    /\ pc = "for"
    /\ idx <= NSegs
    /\ LET r == forwardSegment(config, linkage.segments[idx])
       IN  /\ r.threw
           /\ error' = r.error
           /\ config' = r.config
    /\ pc' = "threw"
    /\ UNCHANGED <<call, linkage, angles, progress, computedSegments, idx, sweeps,
                   resolved>>

\* slip: every sweep is counted, with or without progress
forEnd_CountsAlways ==
    /\ pc = "for"
    /\ idx > NSegs
    /\ computedSegments' = computedSegments + 1
    /\ pc' = "while"
    /\ UNCHANGED <<call, linkage, angles, config, progress, idx, error, sweeps,
                   resolved>>

\* end of the for loop: if (progress) computedSegments += 1
forEnd ==
    /\ pc = "for"
    /\ idx > NSegs
    /\ computedSegments' = IF progress THEN computedSegments + 1
                           ELSE computedSegments
    /\ pc' = "while"
    /\ UNCHANGED <<call, linkage, angles, config, progress, idx, error, sweeps,
                   resolved>>

\* the loop is left and computedSegments !== segments.length: throw
forwardConfigThrows ==
    /\ pc = "while"
    /\ ~progress
    /\ NotAllComputed(computedSegments, NSegs)
    /\ error' = FailedToCompute
    /\ pc' = "threw"
    /\ UNCHANGED <<call, linkage, angles, config, progress, computedSegments, idx,
                   sweeps, resolved>>

\* the loop is left, forwardConfig returns and forwardLinkage returns config
forwardLinkageReturns ==
    /\ pc = "while"
    /\ ~progress
    /\ ~NotAllComputed(computedSegments, NSegs)
    /\ pc' = "returned"
    /\ UNCHANGED <<call, linkage, angles, config, progress, computedSegments, idx,
                   error, sweeps, resolved>>

\* the steps of forwardConfig
forwardConfig ==
    \/ whileEnter
    \/ forBody
    \/ forBodyThrows
    \/ forEnd
    \/ forwardConfigThrows
    \/ forwardLinkageReturns

Next ==
    \/ forwardLinkage
    \/ forwardConfig

Spec == Init /\ [][Next]_vars

-----------------------------------------------------------------------------
\* the step machine and forwardLinkageOutcome describe the same run
OutcomeAgrees ==
    Terminated =>
        forwardLinkageOutcome(linkage, angles)
            = [status |-> pc, error |-> error, config |-> config]

-----------------------------------------------------------------------------
(* Vocabulary of the properties *)

Segs == linkage.segments

\* the point references a segment reads
InputPoints(seg) == {seg.refs.p0, seg.refs.p1}

\* the length references a segment reads, in the order getInput reads them
LenRefsOf(seg) ==
    IF seg.t = "m" THEN <<seg.refs.len>> ELSE <<seg.refs.len0, seg.refs.len1>>

\* the length references of a segment that linkage.lengths does not seed
MissingLens(seg) ==
    {LenRefsOf(seg)[j] : j \in DOMAIN LenRefsOf(seg)} \ DOMAIN linkage.lengths

\* every length and angle a segment names is seeded
Seeded(seg) ==
    /\ MissingLens(seg) = {}
    /\ seg.t = "m" => seg.refs.theta \in DOMAIN angles

\* each segment reads anchors or outputs of earlier segments
InDependencyOrder(ss) ==
    \A i \in DOMAIN ss :
        InputPoints(ss[i]) \subseteq
            DOMAIN linkage.staticPoints \cup {ss[j].refs.p2 : j \in 1..(i - 1)}

\* each segment writes a reference of its own that is not an anchor
FreshOutputs(ss) ==
    \A i \in DOMAIN ss :
        /\ ss[i].refs.p2 \notin DOMAIN linkage.staticPoints
        /\ \A j \in DOMAIN ss : j # i => ss[j].refs.p2 # ss[i].refs.p2

AllSeeded(ss) == \A i \in DOMAIN ss : Seeded(ss[i])

\* every segment's output is bound in the store
AllOutputsBound(ss, cfg) ==
    \A i \in DOMAIN ss : ~Absent(cfg.points, ss[i].refs.p2)

\* the rearrangements of a segment list
Rearrangements(ss) ==
    {[i \in DOMAIN ss |-> ss[f[i]]] :
        f \in {g \in [DOMAIN ss -> DOMAIN ss] :
                 \A a, b \in DOMAIN ss : a # b => g[a] # g[b]}}

\* forwardSegment is about to be called on segment idx
AtSegment == pc = "for" /\ idx <= NSegs

\* the segment list of the test 'computes a square linkage'
SquareSegments ==
    << [t |-> "m", refs |-> [p0 |-> "p0", p1 |-> "p1", p2 |-> "p2",
                             theta |-> "theta0", len |-> "len0"]],
       [t |-> "p", refs |-> [p0 |-> "p2", p1 |-> "p1", p2 |-> "p3",
                             len0 |-> "len1", len1 |-> "len2"]] >>

-----------------------------------------------------------------------------
\* C1 (as claimed, on the square linkage it names): the square linkage is
\* listed in dependency order with all lengths and angles seeded, so
\* forwardLinkage returns normally with the output of every segment bound.
C1_DependencyOrderReturns ==
    (Terminated /\ Segs = SquareSegments /\ InDependencyOrder(Segs)
        /\ AllSeeded(Segs))
        => (pc = "returned" /\ AllOutputsBound(Segs, config))

\* C2 (as claimed, on the square linkage it names): every permutation of the
\* segment list of the square linkage ends as this run does: same success or
\* failure and, on success, the same points.
C2_OrderIndependent ==
    (Terminated /\ Segs \in Rearrangements(SquareSegments)) =>
        \A ps \in Rearrangements(Segs) :
            LET o == forwardLinkageOutcome([linkage EXCEPT !.segments = ps], angles)
            IN  /\ o.status = pc
                /\ pc = "returned" => o.config.points = config.points

\* C3 (as claimed): when sweeping has stopped (the run ended without a
\* missing-value error), forwardConfig has thrown 'failed to compute all
\* segments' iff fewer segments were resolved than the list holds.
C3_FailsIffUnresolved ==
    (Terminated /\ error.msg # "no value for key") =>
        ((pc = "threw" /\ error = FailedToCompute)
            <=> Cardinality(resolved) < NSegs)

\* position of the run: sweeps completed, then the place inside the sweep
Measure ==
    sweeps * (NSegs + 3)
        + (IF pc = "for" THEN idx ELSE NSegs + 2)
        + (IF Terminated THEN 1 ELSE 0)

\* C4: forwardConfig terminates (it returns or throws) and makes at most
\* segments.length + 1 sweeps: every step moves the run forward, the number
\* of sweeps and the position inside a sweep are bounded, and the loop is
\* never held back by the cap on the sweep counter (the only guard of the
\* steps that is not a test of the code).
C4_TerminatesWithinSweeps ==
    /\ [][pc # "forwardLinkage" => Measure' > Measure]_vars
    /\ [](sweeps <= NSegs + 1 /\ idx <= NSegs + 1)
    /\ []((pc = "while" /\ progress) => sweeps < MaxSweeps)

\* C4 witness: a run of two segments that ended after three sweeps.
C4_Witness == Terminated /\ NSegs = 2 /\ sweeps = NSegs + 1

\* C5: write-once: a point reference bound in config.points keeps its value
\* in every later state of the run.
C5_WriteOnce ==
    [][\A r \in DOMAIN config.points :
          /\ r \in DOMAIN config'.points
          /\ config'.points[r] = config.points[r]]_vars

\* C5 witness: in a second or later sweep, a segment that names as its output
\* the reference an earlier segment committed has been passed over.
C5_Witness ==
    /\ pc = "for"
    /\ sweeps >= 2
    /\ \E j \in resolved : \E k \in (j + 1)..(idx - 1) :
          Segs[k].refs.p2 = Segs[j].refs.p2

-----------------------------------------------------------------------------
\* the first length reference of a segment that linkage.lengths does not seed
FirstMissingLen(seg) ==
    LET ls == LenRefsOf(seg)
        j == CHOOSE a \in DOMAIN ls :
                /\ ls[a] \notin DOMAIN linkage.lengths
                /\ \A b \in 1..(a - 1) : ls[b] \in DOMAIN linkage.lengths
    IN  ls[j]

\* C6 (as claimed, on linkages of Passive segments with fresh outputs): if
\* some segment names a length reference that linkage.lengths does not seed,
\* the run ends with 'no value for key' naming such a reference, whatever the
\* availability of the segment's points.
C6_MissingLengthAlwaysNamed ==
    (/\ Terminated
     /\ \A i \in DOMAIN Segs : Segs[i].t = "p"
     /\ FreshOutputs(Segs)
     /\ \E i \in DOMAIN Segs : MissingLens(Segs[i]) # {})
        => (/\ pc = "threw"
            /\ error.msg = "no value for key"
            /\ error.key \in UNION {MissingLens(Segs[i]) : i \in DOMAIN Segs})

\* C6 (amended): when forwardSegment is called on a segment whose output is
\* not yet bound, whose points p0 and p1 are bound and (Motor) whose theta is
\* bound, and the segment names a length reference without value, the run
\* fails at that call with 'no value for key' naming the first such reference.
C6_MissingLengthNamedWhenReached ==
    [][(/\ AtSegment
        /\ Absent(config.points, Segs[idx].refs.p2)
        /\ InputPoints(Segs[idx]) \subseteq DOMAIN config.points
        /\ Segs[idx].t = "m" => Segs[idx].refs.theta \in DOMAIN config.angles
        /\ MissingLens(Segs[idx]) # {})
          => (/\ pc' = "threw"
              /\ error' = NoValue(FirstMissingLen(Segs[idx])))]_vars

\* C6 witness: the second segment of a list, a Passive segment reading a
\* computed point, has thrown for its length.
C6_Witness ==
    /\ pc = "threw"
    /\ idx = 2
    /\ NSegs = 2
    /\ Segs[idx].t = "p"
    /\ Segs[idx].refs.p0 \notin DOMAIN linkage.staticPoints
    /\ MissingLens(Segs[idx]) # {}
    /\ error = NoValue(FirstMissingLen(Segs[idx]))

\* C7 (as claimed): when forwardSegment is called on a segment, Motor or
\* Passive, whose output is not yet bound and whose p0 or p1 is not yet
\* bound but is the output of a segment listed after it, no error is raised:
\* the call returns false, the store is left as it is and the loop goes on
\* to the next segment.
C7_MissingPointDefers ==
    [][(/\ AtSegment
        /\ Absent(config.points, Segs[idx].refs.p2)
        /\ Segs[idx].refs.p2 \notin InputPoints(Segs[idx])
        /\ ~(InputPoints(Segs[idx]) \subseteq DOMAIN config.points)
        /\ InputPoints(Segs[idx]) \subseteq
              DOMAIN config.points
                \cup {Segs[j].refs.p2 : j \in (idx + 1)..NSegs})
          => (/\ pc' = "for"
              /\ idx' = idx + 1
              /\ config' = config
              /\ error' = NoError)]_vars

\* C8: when forwardLinkage returns normally, the config holds every static
\* point with its original value, a binding for the output of every segment,
\* and the caller's angles.
C8_ReturnedConfigComplete ==
    pc = "returned" =>
        /\ \A r \in DOMAIN linkage.staticPoints :
              /\ ~Absent(config.points, r)
              /\ config.points[r] = linkage.staticPoints[r]
        /\ AllOutputsBound(Segs, config)
        /\ config.angles = angles

\* C8 witness: a run of two segments returned normally.
C8_Witness == pc = "returned" /\ NSegs = 2 /\ resolved = {1, 2}

\* C9: after the call is made the linkage and the caller's angles never
\* change, the lengths and angles of the store stay as seeded, and the points
\* of the store only gain entries.
C9_OnlyPointsGrow ==
    /\ [][pc # "forwardLinkage" =>
            /\ linkage' = linkage
            /\ angles' = angles
            /\ config'.lengths = config.lengths
            /\ config'.angles = config.angles
            /\ DOMAIN config.points \subseteq DOMAIN config'.points]_vars
    /\ [](pc # "forwardLinkage" =>
            /\ config.lengths = linkage.lengths
            /\ config.angles = angles)

\* C9 witness: a failed run that had committed the output of a Passive
\* segment.
C9_Witness ==
    /\ pc = "threw"
    /\ \E i \in resolved : Segs[i].t = "p"

\* the law-of-cosines argument (len1^2 - len0^2 - len2^2) / (-2 len0 len2)
\* lies outside [-1, 1], for finite points p0 and p1
ImpossibleTriangle(p0, p1, len0, len1) ==
    LET dx == p1.x.v - p0.x.v
        dy == p1.y.v - p0.y.v
        l2 == dx * dx + dy * dy
        k == len1 * len1 - len0 * len0 - l2
    IN  k * k > 4 * len0 * len0 * l2

\* forwardSegment is about to compute a Passive segment on an impossible
\* triangle
AtImpossiblePassive ==
    /\ AtSegment
    /\ Segs[idx].t = "p"
    /\ Absent(config.points, Segs[idx].refs.p2)
    /\ InputPoints(Segs[idx]) \subseteq DOMAIN config.points
    /\ MissingLens(Segs[idx]) = {}
    /\ ~IsNaNPoint(config.points[Segs[idx].refs.p0])
    /\ ~IsNaNPoint(config.points[Segs[idx].refs.p1])
    /\ ImpossibleTriangle(config.points[Segs[idx].refs.p0],
                          config.points[Segs[idx].refs.p1],
                          config.lengths[Segs[idx].refs.len0],
                          config.lengths[Segs[idx].refs.len1])

-----------------------------------------------------------------------------
(* The functions called on their own, as the unit tests call them: one     *)
(* call per behaviour                                                      *)

\* distance within which two numbers count as equal
Tol == 1

\* the run variables stay as Init leaves them
RunIdle ==
    UNCHANGED <<linkage, angles, config, pc, progress, computedSegments, idx,
                error, sweeps, resolved>>

\* maps from keys to numbers, 0 among them, and the keys looked up
GetXMaps == UNION {[ks -> {0, 3}] : ks \in SUBSET {"a", "b"}}

GetXKeys == {"a", "b", "c"}

\* getX(m, key)
callGetX ==
    /\ call = NoCall
    /\ \E m \in GetXMaps, key \in GetXKeys :
          call' = [op |-> "getX", m |-> m, key |-> key, result |-> getX(m, key)]
    /\ RunIdle

\* points and lengths given to the forward functions; FwdP1 holds (0, 0),
\* which makes p0 = p1, and FwdLens holds 0 and the base lengths 20 and 25
FwdP0 == {Pt(0, 0), Pt(3, -2)}

FwdP1 == {Pt(20, 0), Pt(0, 20), Pt(12, 16), Pt(-15, 8), Pt(0, 0)}

FwdLens == {0, 10, 13, 20, 25, 30}

\* drive angles in quarter turns
FwdThetas == {0, 1, 2, 3, 5, -1}

\* MotorSegment.forward(input)
callMotorForward ==
    /\ call = NoCall
    /\ \E p0 \in FwdP0, p1 \in FwdP1, theta \in FwdThetas, len \in FwdLens :
          LET in == [p0 |-> p0, p1 |-> p1, theta |-> theta, len |-> len]
          IN  call' = [op |-> "motor", input |-> in, p2 |-> MotorForward(in)]
    /\ RunIdle

\* PassiveSegment.forward(input), and the same call with the points and the
\* lengths exchanged
callPassiveForward ==
    /\ call = NoCall
    /\ \E p0 \in FwdP0, p1 \in FwdP1, len0 \in FwdLens, len1 \in FwdLens :
          LET in == [p0 |-> p0, p1 |-> p1, len0 |-> len0, len1 |-> len1]
              rev == [p0 |-> p1, p1 |-> p0, len0 |-> len1, len1 |-> len0]
          IN  call' = [op |-> "passive", input |-> in,
                       p2 |-> PassiveForward(in),
                       reversed |-> PassiveForward(rev)]
    /\ RunIdle

FnNext ==
    \/ callGetX
    \/ callMotorForward
    \/ callPassiveForward

FnSpec == Init /\ [][FnNext]_vars

\* squared distance of two finite points
Dist2(p, q) ==
    (p.x.v - q.x.v) * (p.x.v - q.x.v) + (p.y.v - q.y.v) * (p.y.v - q.y.v)

\* a squared distance d2 is that of len, within tol
Near(d2, len, tol) ==
    /\ d2 <= (len + tol) * (len + tol)
    /\ len <= tol \/ d2 >= (len - tol) * (len - tol)

\* len0, len1 and |p1 - p0| satisfy the triangle inequality
TriangleInequality(in) ==
    /\ (in.len0 + in.len1) * (in.len0 + in.len1) >= Dist2(in.p0, in.p1)
    /\ (in.len0 - in.len1) * (in.len0 - in.len1) <= Dist2(in.p0, in.p1)

\* the same, strictly: len0, len1 and |p1 - p0| are the sides of a triangle
\* with three distinct corners
StrictTriangle(in) ==
    /\ (in.len0 + in.len1) * (in.len0 + in.len1) > Dist2(in.p0, in.p1)
    /\ (in.len0 - in.len1) * (in.len0 - in.len1) < Dist2(in.p0, in.p1)

\* p2 lies at len0 from p0 and at len1 from p1
TriangleLaw(in, p2) ==
    /\ ~IsNaNPoint(p2)
    /\ Near(Dist2(p2, in.p0), in.len0, Tol)
    /\ Near(Dist2(p2, in.p1), in.len1, Tol)

-----------------------------------------------------------------------------
\* C11: getX(m, key) returns the value bound to key when key is present in m
\* (0 included), and throws 'no value for key <key>' when key is absent.
C11_GetXStrict ==
    call.op = "getX" =>
        IF call.key \in DOMAIN call.m
        THEN ~call.result.threw /\ call.result.v = call.m[call.key]
        ELSE call.result.threw /\ call.result.error = NoValue(call.key)

\* C11 witness: getX returned the value 0 of a present key.
C11_Witness ==
    /\ call.op = "getX"
    /\ call.key \in DOMAIN call.m
    /\ call.m[call.key] = 0
    /\ ~call.result.threw

\* C12 (as claimed): for every input that satisfies the triangle inequality
\* with base |p1 - p0|, PassiveSegment.forward returns a point at len0 from
\* p0 and at len1 from p1.
C12_TriangleLaw ==
    (call.op = "passive" /\ TriangleInequality(call.input))
        => TriangleLaw(call.input, call.p2)

\* C12 (amended): the same for every input that satisfies the triangle
\* inequality strictly.
C12_StrictTriangleLaw ==
    (call.op = "passive" /\ StrictTriangle(call.input))
        => TriangleLaw(call.input, call.p2)

\* C12 witness: forward returned the apex of a triangle with unequal sides
\* on an oblique base.
C12_Witness ==
    /\ call.op = "passive"
    /\ StrictTriangle(call.input)
    /\ call.input.len0 # call.input.len1
    /\ call.input.p1.x.v # call.input.p0.x.v
    /\ call.input.p1.y.v # call.input.p0.y.v
    /\ ~IsNaNPoint(call.p2)

-----------------------------------------------------------------------------
\* the vector p1 - p0 turned by q quarter turns, as <<x, y>>
Turned(p0, p1, q) ==
    LET dx == p1.x.v - p0.x.v
        dy == p1.y.v - p0.y.v
    IN  <<dx * Cos4(q) - dy * Sin4(q), dy * Cos4(q) + dx * Sin4(q)>>

Cross(a, b) == a[1] * b[2] - a[2] * b[1]

Dot(a, b) == a[1] * b[1] + a[2] * b[2]

\* the vector from p to q, as <<x, y>>
Vec(p, q) == <<q.x.v - p.x.v, q.y.v - p.y.v>>

\* C13: MotorSegment.forward returns a point p2 at len from p0 and, when p0
\* and p1 differ, in the direction of p1 - p0 turned by theta: p2 - p0 has no
\* component across that direction and none against it (within tolerance).
C13_MotorRotatesAndExtends ==
    call.op = "motor" =>
        LET in == call.input
            r == Turned(in.p0, in.p1, in.theta)
            v == Vec(in.p0, call.p2)
            l2 == Dist2(in.p0, in.p1)
        IN  /\ ~IsNaNPoint(call.p2)
            /\ Near(Dist2(call.p2, in.p0), in.len, Tol)
            /\ l2 > 0 =>
                  /\ Cross(r, v) * Cross(r, v) <= Tol * Tol * l2
                  /\ Dot(r, v) >= 0 \/ Dot(r, v) * Dot(r, v) <= Tol * Tol * l2

\* C13 witness: forward turned an oblique edge by a quarter turn and extended
\* a positive length.
C13_Witness ==
    /\ call.op = "motor"
    /\ call.input.theta = 1
    /\ call.input.len > 0
    /\ call.input.p1.x.v # call.input.p0.x.v
    /\ call.input.p1.y.v # call.input.p0.y.v
    /\ call.p2 # call.input.p0

\* C14: for every input that is a triangle (strict triangle inequality),
\* forward on (p0, p1, len0, len1) and on (p1, p0, len1, len0) return mirror
\* images across the line p0 p1: the segment joining the two apexes is
\* perpendicular to the line, and the apexes lie at opposite signed distances
\* from it (within tolerance).
C14_SwapMirrors ==
    (call.op = "passive" /\ StrictTriangle(call.input)) =>
        LET in == call.input
            d == Vec(in.p0, in.p1)
            a == Vec(in.p0, call.p2)
            b == Vec(in.p0, call.reversed)
            ab == Vec(call.p2, call.reversed)
            l2 == Dist2(in.p0, in.p1)
            side == Cross(d, a) + Cross(d, b)
        IN  /\ ~IsNaNPoint(call.p2)
            /\ ~IsNaNPoint(call.reversed)
            /\ Dot(d, ab) * Dot(d, ab) <= 4 * Tol * Tol * l2
            /\ side * side <= 4 * Tol * Tol * l2

\* C14 witness: the two calls returned distinct apexes, one on each side of
\* an oblique line p0 p1.
C14_Witness ==
    /\ call.op = "passive"
    /\ StrictTriangle(call.input)
    /\ call.input.p1.x.v # call.input.p0.x.v
    /\ call.input.p1.y.v # call.input.p0.y.v
    /\ ~IsNaNPoint(call.p2)
    /\ ~IsNaNPoint(call.reversed)
    /\ Cross(Vec(call.input.p0, call.input.p1), Vec(call.input.p0, call.p2)) > 0
    /\ Cross(Vec(call.input.p0, call.input.p1),
             Vec(call.input.p0, call.reversed)) < 0

-----------------------------------------------------------------------------
\* a step in which forwardSegment was called on segment idx and returned
ForwardSegmentReturned == pc = "for" /\ idx <= NSegs /\ idx' = idx + 1

\* the value forwardSegment returned in that step, as forwardConfig sees it
ReturnedTrue == idx \in resolved' /\ idx \notin resolved

\* the step bound the output of segment idx, which was not bound before
CommittedOutput ==
    /\ Absent(config.points, Segs[idx].refs.p2)
    /\ ~Absent(config'.points, Segs[idx].refs.p2)
    /\ \A k \in DOMAIN config.points : config'.points[k] = config.points[k]
    /\ DOMAIN config'.points = DOMAIN config.points \cup {Segs[idx].refs.p2}

\* C15: in every call that returns, forwardSegment returns true exactly when
\* the call bound the segment's output in config.points; a call that returns
\* false leaves points, lengths and angles as they were.
C15_TrueIffCommitted ==
    [][ForwardSegmentReturned =>
          /\ ReturnedTrue <=> CommittedOutput
          /\ ~ReturnedTrue => config' = config
          /\ progress' = (ReturnedTrue \/ progress)]_vars

\* C15 witness: a run in which forwardSegment has returned true (segment 1
\* resolved) and has returned false without touching the store (segment 2
\* was attempted in the same sweep and is not resolved).
C15_Witness ==
    /\ pc = "for"
    /\ NSegs = 2
    /\ idx = 3
    /\ sweeps = 1
    /\ resolved = {1}
    /\ DOMAIN config.points = DOMAIN linkage.staticPoints \cup {Segs[1].refs.p2}

-----------------------------------------------------------------------------
\* C16 as stated: for a list in dependency order with all inputs seeded, every
\* segment is resolved during the first sweep and the run makes exactly two
\* sweeps.
C16_DependencyOrderTwoSweeps ==
    (InDependencyOrder(Segs) /\ AllSeeded(Segs)) =>
        /\ (pc = "for" /\ sweeps = 1) => resolved = 1..(idx - 1)
        /\ Terminated => (sweeps = 2 /\ resolved = 1..NSegs)

\* C16, amended: for a non-empty list in dependency order, with all inputs
\* seeded and every output a reference of its own that is not an anchor, each
\* segment is resolved when the first sweep reaches it, the second sweep
\* resolves nothing, no call throws, and the run ends after exactly two sweeps.
C16_FreshDependencyOrderTwoSweeps ==
    (NSegs >= 1 /\ InDependencyOrder(Segs) /\ AllSeeded(Segs)
        /\ FreshOutputs(Segs)) =>
        /\ sweeps <= 2
        /\ (pc = "for" /\ sweeps = 1) => resolved = 1..(idx - 1)
        /\ sweeps = 2 => resolved = 1..NSegs
        /\ error.msg # "no value for key"
        /\ Terminated => sweeps = 2

\* C16 witness: a run over two segments, the second reading the output of the
\* first, has ended after two sweeps with both resolved.
C16_Witness ==
    /\ Terminated
    /\ NSegs = 2
    /\ InDependencyOrder(Segs)
    /\ AllSeeded(Segs)
    /\ FreshOutputs(Segs)
    /\ Segs[1].refs.p2 \in InputPoints(Segs[2])
    /\ sweeps = 2
    /\ resolved = {1, 2}

-----------------------------------------------------------------------------
\* C17: forwardConfig run again, with the same segments, on the config a
\* successful run returned, returns normally and leaves the config as it is.
C17_SecondRunSucceeds ==
    pc = "returned" =>
        LET again == whileLoop(config, Segs, 0, NSegs + 1)
        IN  /\ again.status = "returned"
            /\ again.config = config

-----------------------------------------------------------------------------
\* the output of segment i was bound before the run reached the segment
BoundBeforeAttempt(i) ==
    \/ Segs[i].refs.p2 \in DOMAIN linkage.staticPoints
    \/ \E j \in resolved : j # i /\ Segs[j].refs.p2 = Segs[i].refs.p2

\* C18: a segment whose output names a static point is never computed; of two
\* segments with the same output at most the one reached first is computed;
\* and a run over a list with such a segment never returns normally.
C18_BoundOutputNeverComputed ==
    /\ \A i \in 1..NSegs : BoundBeforeAttempt(i) => i \notin resolved
    /\ pc = "returned" => FreshOutputs(Segs)

\* C18 witness: the first of two segments with the same output was computed,
\* the second never was, and the run ended in 'failed to compute all segments'.
C18_Witness ==
    /\ pc = "threw"
    /\ error = FailedToCompute
    /\ NSegs = 2
    /\ Segs[1].refs.p2 = Segs[2].refs.p2
    /\ resolved = {1}
    /\ sweeps = 2

-----------------------------------------------------------------------------
\* the value segment i computes from the points, lengths and angles of cfg
ValueOf(cfg, i) == Forward(Segs[i], GetInput(cfg, Segs[i]).input)

\* every point the run committed is bound in config with the value computed
\* for it, every static point has its value, and nothing else is bound
PointsKept ==
    /\ \A k \in DOMAIN linkage.staticPoints :
           /\ ~Absent(config.points, k)
           /\ config.points[k] = linkage.staticPoints[k]
    /\ \A i \in resolved :
           /\ ~Absent(config.points, Segs[i].refs.p2)
           /\ GetInput(config, Segs[i]).kind = "value"
           /\ config.points[Segs[i].refs.p2] = ValueOf(config, i)
    /\ DOMAIN config.points =
           DOMAIN linkage.staticPoints \cup {Segs[i].refs.p2 : i \in resolved}

\* C19: when the run has thrown, the points committed before the error are
\* still bound with their values, the static points are as seeded, lengths and
\* angles are as seeded; and the step that throws changes nothing in config.
C19_NoRollback ==
    /\ [](pc = "threw" =>
             /\ PointsKept
             /\ config.lengths = linkage.lengths
             /\ config.angles = angles)
    /\ [][pc' = "threw" => config' = config]_vars

\* C19 witness: a segment threw 'no value for key' after an earlier segment
\* had committed its output.
C19_Witness ==
    /\ pc = "threw"
    /\ error.msg = "no value for key"
    /\ resolved # {}
    /\ \E i \in resolved : config.points[Segs[i].refs.p2] # NaNPoint

====
